---- MODULE Spec2Model ----
(***************************************************************************)
(* A model of update_libs.py: the two version converters, the per-line     *)
(* *_VER substitution, and the main block that looks the versions up and   *)
(* rewrites Dockerfile through Dockerfile.new.                             *)
(*                                                                         *)
(* A Python str is modelled as a sequence of one-character strings.  The   *)
(* character U+0001 is written SOH.  Version strings and file contents in  *)
(* the model hold no backslash, so a replacement template is literal text. *)
(***************************************************************************)
EXTENDS Integers, Sequences, FiniteSets, TLC

VARIABLES pc,        \* position in the code being run
          version,   \* argument of the converter being called
          result,    \* what the converter call produced
          PACKAGES,  \* the dict of line 86, as a sequence of <<prefix, value>>
          disk,      \* the two files: Dockerfile and Dockerfile.new
          original,  \* Dockerfile's content when the run started
          src,       \* the input file object
          dst,       \* the output file object
          line,      \* the loop variable of line 105
          lineIn,    \* that line as it was read, before the substitutions
          renamed    \* whether os.rename has been carried out

vars == <<pc, version, result, PACKAGES, disk, original, src, dst, line, lineIn, renamed>>

----------------------------------------------------------------------------
(* Characters and strings *)

SOH == "SOH"
Lower == {"a","b","c","d","e","f","g","h","i","j","k","l","m",
          "n","o","p","q","r","s","t","u","v","w","x","y","z"}
Digit == {"0","1","2","3","4","5","6","7","8","9"}
Whitespace == {" ", "\t", "\n", "\r", "\f"}
QUOTE == "\""

SetMax(S) == CHOOSE x \in S : \A y \in S : y <= x
SetMin(S) == CHOOSE x \in S : \A y \in S : x <= y

RECURSIVE Cat(_)
Cat(ss) == IF ss = <<>> THEN <<>> ELSE Head(ss) \o Cat(Tail(ss))

\* All sequences over alphabet A of length 0..n
RECURSIVE SeqsUpTo(_, _)
SeqsUpTo(A, n) ==
    IF n = 0 THEN {<<>>}
    ELSE LET shorter == SeqsUpTo(A, n - 1)
         IN shorter \cup {Append(s, a) : s \in {t \in shorter : Len(t) = n - 1}, a \in A}

NoValue == [kind |-> "none", value |-> <<>>]
Ok(s) == [kind |-> "ok", value |-> s]
Raised(e) == [kind |-> e, value |-> <<>>]

----------------------------------------------------------------------------
(* convert_openssl_version: re.sub(r'(.+)\.([a-z])', r'\1\2', version) *)

\* The pattern read as (.+?)\.(.): a lazy group and any character after the dot
OpensslDotLazyAnyChar(s, p) ==
    LET cands == {i \in (p + 1)..(Len(s) - 1) :
                     /\ s[i] = "."
                     /\ s[i + 1] # "\n"
                     /\ \A k \in p..(i - 1) : s[k] # "\n"}
    IN IF cands = {} THEN 0 ELSE SetMin(cands)

\* A match attempted at p: group 1 is greedy, so the dot taken is the last one
\* that is followed by a lowercase letter and reachable without crossing "\n"
\* (. does not match a newline). 0 when the pattern does not match at p.
OpensslDot(s, p) ==
    LET cands == {i \in (p + 1)..(Len(s) - 1) :
                     /\ s[i] = "."
                     /\ s[i + 1] \in Lower
                     /\ \A k \in p..(i - 1) : s[k] # "\n"}
    IN IF cands = {} THEN 0 ELSE SetMax(cands)

RECURSIVE OpensslSub(_, _)
OpensslSub(s, p) ==
    IF p > Len(s) THEN <<>>
    ELSE LET i == OpensslDot(s, p)
         IN IF i = 0
            THEN <<s[p]>> \o OpensslSub(s, p + 1)
            ELSE SubSeq(s, p, i - 1) \o <<s[i + 1]>> \o OpensslSub(s, i + 2)

convert_openssl_version(v) == OpensslSub(v, 1)

----------------------------------------------------------------------------
(* convert_sqlite_version *)

\* Last index of the run of digits that starts at p; p - 1 when s[p] is no digit.
DigitRunEnd(s, p) ==
    LET stops == {i \in p..(Len(s) + 1) : i = Len(s) + 1 \/ s[i] \notin Digit}
    IN SetMin(stops) - 1

\* re.match(r'(\d+)\.(\d+)\.(\d+)', version): the three groups, or <<>> for None.
SqliteMatch(s) ==
    LET e1 == DigitRunEnd(s, 1)
    IN IF e1 < 1 \/ e1 + 1 > Len(s) \/ s[e1 + 1] # "." THEN <<>>
       ELSE LET e2 == DigitRunEnd(s, e1 + 2)
            IN IF e2 < e1 + 2 \/ e2 + 1 > Len(s) \/ s[e2 + 1] # "." THEN <<>>
               ELSE LET e3 == DigitRunEnd(s, e2 + 2)
                    IN IF e3 < e2 + 2 THEN <<>>
                       ELSE <<SubSeq(s, 1, e1), SubSeq(s, e1 + 2, e2), SubSeq(s, e2 + 2, e3)>>

DigitVal(c) == CASE c = "0" -> 0 [] c = "1" -> 1 [] c = "2" -> 2 [] c = "3" -> 3
                 [] c = "4" -> 4 [] c = "5" -> 5 [] c = "6" -> 6 [] c = "7" -> 7
                 [] c = "8" -> 8 [] c = "9" -> 9
DigitChar(n) == CASE n = 0 -> "0" [] n = 1 -> "1" [] n = 2 -> "2" [] n = 3 -> "3"
                  [] n = 4 -> "4" [] n = 5 -> "5" [] n = 6 -> "6" [] n = 7 -> "7"
                  [] n = 8 -> "8" [] n = 9 -> "9"

\* int(digits)
RECURSIVE int(_)
int(ds) == IF ds = <<>> THEN 0
           ELSE int(SubSeq(ds, 1, Len(ds) - 1)) * 10 + DigitVal(ds[Len(ds)])

\* '{:d}'.format(n)
RECURSIVE FormatD(_)
FormatD(n) == IF n < 10 THEN <<DigitChar(n)>>
              ELSE FormatD(n \div 10) \o <<DigitChar(n % 10)>>

\* '{:02d}'.format(n)
Format02dUnpadded(n) == FormatD(n)

Format02d(n) == IF n < 10 THEN <<"0">> \o FormatD(n) ELSE FormatD(n)

SqliteNoneTolerant(v) ==
    LET matches == SqliteMatch(v)
    IN IF matches = <<>> THEN Ok(v)
       ELSE Ok(FormatD(int(matches[1])) \o Format02d(int(matches[2]))
               \o Format02d(int(matches[3])) \o <<"0", "0">>)

\* matches[1] on None raises TypeError
convert_sqlite_version(v) ==
    LET matches == SqliteMatch(v)
    IN IF matches = <<>> THEN Raised("TypeError")
       ELSE Ok(FormatD(int(matches[1])) \o Format02d(int(matches[2]))
               \o Format02d(int(matches[3])) \o <<"0", "0">>)

----------------------------------------------------------------------------
(* The substitution of lines 106-107 *)

CURL == <<"C", "U", "R", "L">>
SQLITE == <<"S", "Q", "L", "I", "T", "E">>
SSL == <<"S", "S", "L">>
ZLIB == <<"Z", "L", "I", "B">>
RUSTUP == <<"R", "U", "S", "T", "U", "P">>
VER_EQ == <<"_", "V", "E", "R", "=">>

\* The pattern f'({prefix}_VER=)\S+' matches at p: the literal, then one or
\* more characters that are not whitespace.
MatchesAt(s, p, prefix) ==
    LET lit == prefix \o VER_EQ
    IN /\ p + Len(lit) <= Len(s)
       /\ SubSeq(s, p, p + Len(lit) - 1) = lit
       /\ s[p + Len(lit)] \notin Whitespace

\* The token read as \S, a single character
TokenEndOneChar(s, p) == p

\* The token read as \S+\s?: the whitespace character after it taken too
TokenEndPastWhitespace(s, p) ==
    LET stops == {i \in p..(Len(s) + 1) : i = Len(s) + 1 \/ s[i] \in Whitespace}
    IN IF SetMin(stops) <= Len(s) THEN SetMin(stops) ELSE Len(s)

\* \S+ is greedy: the match runs to the last character before the next
\* whitespace character (or the end of the string).
TokenEnd(s, p) ==
    LET stops == {i \in p..(Len(s) + 1) : i = Len(s) + 1 \/ s[i] \in Whitespace}
    IN SetMin(stops) - 1

\* The replacement intended by the capture group: group 1, then the quoted value.
TemplateKeepingGroup(group1, v) == group1 \o <<QUOTE>> \o v \o <<QUOTE>>

\* The replacement f'\1"{version}"'. The literal is not raw, so \1 is the
\* character U+0001 and not a reference to group 1.
ExpandTemplate(group1, v) == <<SOH, QUOTE>> \o v \o <<QUOTE>>

\* re.sub: leftmost matches, not overlapping, each replaced.
RECURSIVE ReSub(_, _, _, _)
ReSub(prefix, v, s, p) ==
    IF p > Len(s) THEN <<>>
    ELSE IF MatchesAt(s, p, prefix)
         THEN LET e == TokenEnd(s, p + Len(prefix) + Len(VER_EQ))
              IN ExpandTemplate(prefix \o VER_EQ, v) \o ReSub(prefix, v, s, e + 1)
         ELSE <<s[p]>> \o ReSub(prefix, v, s, p + 1)

\* Line 107 for one item of PACKAGES
SubstitutePrefix(prefix, v, l) == ReSub(prefix, v, l, 1)

\* Lines 106-107: every item of PACKAGES, in the dict's order
RECURSIVE SubstituteItems(_, _)
SubstituteItems(items, l) ==
    IF items = <<>> THEN l
    ELSE SubstituteItems(Tail(items), SubstitutePrefix(Head(items)[1], Head(items)[2], l))

----------------------------------------------------------------------------
(* Text-mode file objects (open(..., 'r') and open(..., 'w'), newline=None) *)

\* os.linesep of the platform the updater runs on (POSIX)
LineSep == <<"\n">>

\* Iterating a file opened with 'r': the content split into lines, with
\* "\r\n" and "\r" translated to "\n"; a last line may have no terminator.
RECURSIVE ReadLinesFrom(_, _, _)
ReadLinesFrom(s, p, cur) ==
    IF p > Len(s) THEN (IF cur = <<>> THEN <<>> ELSE <<cur>>)
    ELSE IF s[p] = "\n" THEN <<Append(cur, "\n")>> \o ReadLinesFrom(s, p + 1, <<>>)
    ELSE IF s[p] = "\r"
         THEN <<Append(cur, "\n")>>
              \o ReadLinesFrom(s, IF p < Len(s) /\ s[p + 1] = "\n" THEN p + 2 ELSE p + 1, <<>>)
    ELSE ReadLinesFrom(s, p + 1, Append(cur, s[p]))

ReadLines(s) == ReadLinesFrom(s, 1, <<>>)

\* What write() puts in the file for a str: "\n" becomes os.linesep.
RECURSIVE WriteText(_)
WriteText(s) ==
    IF s = <<>> THEN <<>>
    ELSE (IF Head(s) = "\n" THEN LineSep ELSE <<Head(s)>>) \o WriteText(Tail(s))

----------------------------------------------------------------------------
(* Bounds and inputs *)

MaxOpensslLen == 7
MaxSqliteLen == 7
MaxLineFrags == 4
MaxFileFrags == 4

OpensslAlphabet == {"1", ".", "o", "\n"}
SqliteAlphabet == {"0", "3", ".", "a"}

\* What the remote services may answer (pkgver and rustup_version return
\* whatever string the server sent)
CurlVersions == {<<"9">>, <<"a", "\n", "b">>}
SqliteVersions == {<<"3", ".", "2", "4", ".", "0">>, <<"a", "b", "c">>}
OpensslVersions == {<<"1", ".", "0", ".", "2", ".", "o">>}
ZlibVersions == {<<"1">>, CURL \o VER_EQ \o <<"z">>}
RustupVersions == {<<"1", ".", "2">>}

\* Pieces that lines and files of the model are built from
LineFragments == {CURL \o VER_EQ, SSL \o VER_EQ \o <<"1">>, ZLIB \o VER_EQ \o <<"1">>,
                  <<"1">>, <<" ">>}
FileFragments == {CURL \o VER_EQ, CURL \o VER_EQ \o <<"1">>, <<" ">>, <<"F">>, <<"\n">>, <<"\r">>}

Bodies(frags, n) == {Cat(fs) : fs \in SeqsUpTo(frags, n)}

\* A line as the iteration of line 105 yields it: "\n" only as its last character
Lines == LET bodies == Bodies(LineFragments, MaxLineFrags)
         IN (bodies \ {<<>>}) \cup {Append(b, "\n") : b \in bodies}

FileContents == Bodies(FileFragments, MaxFileFrags)

\* The dicts that line 86 can build
PackageDicts ==
    {<<<<CURL, c>>, <<SQLITE, convert_sqlite_version(s).value>>,
       <<SSL, convert_openssl_version(o)>>, <<ZLIB, z>>, <<RUSTUP, r>>>> :
        c \in CurlVersions,
        s \in {t \in SqliteVersions : convert_sqlite_version(t).kind = "ok"},
        o \in OpensslVersions, z \in ZlibVersions, r \in RustupVersions}

NoDisk == [Dockerfile |-> <<>>, new |-> [exists |-> FALSE, data |-> <<>>]]
Closed == [open |-> FALSE, lines |-> <<>>, buf |-> <<>>, writes |-> 0]

----------------------------------------------------------------------------
(* The converters, called on their own *)

InitOpenssl ==
    /\ pc = "call" /\ version \in SeqsUpTo(OpensslAlphabet, MaxOpensslLen)
    /\ result = NoValue /\ PACKAGES = <<>> /\ disk = NoDisk /\ original = <<>>
    /\ src = Closed /\ dst = Closed /\ line = <<>> /\ lineIn = <<>> /\ renamed = FALSE

CallOpenssl ==
    /\ pc = "call"
    /\ result' = Ok(convert_openssl_version(version))
    /\ pc' = "return"
    /\ UNCHANGED <<version, PACKAGES, disk, original, src, dst, line, lineIn, renamed>>

SpecOpenssl == InitOpenssl /\ [][CallOpenssl]_vars

InitSqlite ==
    /\ pc = "call" /\ version \in SeqsUpTo(SqliteAlphabet, MaxSqliteLen)
    /\ result = NoValue /\ PACKAGES = <<>> /\ disk = NoDisk /\ original = <<>>
    /\ src = Closed /\ dst = Closed /\ line = <<>> /\ lineIn = <<>> /\ renamed = FALSE

CallSqlite ==
    /\ pc = "call"
    /\ result' = convert_sqlite_version(version)
    /\ pc' = "return"
    /\ UNCHANGED <<version, PACKAGES, disk, original, src, dst, line, lineIn, renamed>>

SpecSqlite == InitSqlite /\ [][CallSqlite]_vars

----------------------------------------------------------------------------
(* The main block, lines 85-111 *)

Init ==
    /\ pc = "curl" /\ version = <<>> /\ result = NoValue /\ PACKAGES = <<>>
    /\ original \in FileContents
    /\ disk = [Dockerfile |-> original, new |-> [exists |-> FALSE, data |-> <<>>]]
    /\ src = Closed /\ dst = Closed /\ line = <<>> /\ lineIn = <<>> /\ renamed = FALSE

Files == <<disk, original, src, dst, line, lineIn, renamed>>

\* An uncaught exception ends the run
Fail == pc' = "failed"

\* Line 87: pkgver('curl') returns a version or raises
LookupCurl ==
    /\ pc = "curl"
    /\ \/ \E v \in CurlVersions : PACKAGES' = Append(PACKAGES, <<CURL, v>>) /\ pc' = "sqlite"
       \/ Fail /\ UNCHANGED PACKAGES
    /\ UNCHANGED <<version, result>> /\ UNCHANGED Files

\* Line 89: convert_sqlite_version(pkgver('sqlite'))
LookupSqlite ==
    /\ pc = "sqlite"
    /\ \/ \E v \in SqliteVersions :
            /\ version' = v
            /\ result' = convert_sqlite_version(v)
            /\ IF result'.kind = "ok"
               THEN PACKAGES' = Append(PACKAGES, <<SQLITE, result'.value>>) /\ pc' = "openssl"
               ELSE Fail /\ UNCHANGED PACKAGES
       \/ Fail /\ UNCHANGED <<PACKAGES, version, result>>
    /\ UNCHANGED Files

\* Line 90: convert_openssl_version(pkgver('openssl'))
LookupOpenssl ==
    /\ pc = "openssl"
    /\ \/ \E v \in OpensslVersions :
            /\ version' = v
            /\ result' = Ok(convert_openssl_version(v))
            /\ PACKAGES' = Append(PACKAGES, <<SSL, result'.value>>) /\ pc' = "zlib"
       \/ Fail /\ UNCHANGED <<PACKAGES, version, result>>
    /\ UNCHANGED Files

\* Line 91: pkgver('zlib')
LookupZlib ==
    /\ pc = "zlib"
    /\ \/ \E v \in ZlibVersions : PACKAGES' = Append(PACKAGES, <<ZLIB, v>>) /\ pc' = "rustup"
       \/ Fail /\ UNCHANGED PACKAGES
    /\ UNCHANGED <<version, result>> /\ UNCHANGED Files

\* Line 92: rustup_version(); lines 96-97 print the dict
LookupRustup ==
    /\ pc = "rustup"
    /\ \/ \E v \in RustupVersions :
            PACKAGES' = Append(PACKAGES, <<RUSTUP, v>>) /\ pc' = "open_src"
       \/ Fail /\ UNCHANGED PACKAGES
    /\ UNCHANGED <<version, result>> /\ UNCHANGED Files

\* Line 101: with open(fname, 'r') as src
OpenSrc ==
    /\ pc = "open_src"
    /\ \/ /\ src' = [src EXCEPT !.open = TRUE, !.lines = ReadLines(disk.Dockerfile)]
          /\ pc' = "open_dst"
       \/ Fail /\ UNCHANGED src
    /\ UNCHANGED <<version, result, PACKAGES, disk, original, dst, line, lineIn, renamed>>

\* Line 102 as a scoped acquisition of the target itself
OpenDstOnTarget ==
    /\ pc = "open_dst"
    /\ \/ /\ dst' = [dst EXCEPT !.open = TRUE]
          /\ disk' = [disk EXCEPT !.Dockerfile = <<>>]
          /\ pc' = "loop" /\ UNCHANGED src
       \/ Fail /\ src' = [src EXCEPT !.open = FALSE] /\ UNCHANGED <<dst, disk>>
    /\ UNCHANGED <<version, result, PACKAGES, original, line, lineIn, renamed>>

\* Line 102: dst = open(f'{fname}.new', 'w') creates or truncates Dockerfile.new.
\* If it raises, the with statement closes src.
OpenDst ==
    /\ pc = "open_dst"
    /\ \/ /\ dst' = [dst EXCEPT !.open = TRUE]
          /\ disk' = [disk EXCEPT !.new = [exists |-> TRUE, data |-> <<>>]]
          /\ pc' = "loop" /\ UNCHANGED src
       \/ Fail /\ src' = [src EXCEPT !.open = FALSE] /\ UNCHANGED <<dst, disk>>
    /\ UNCHANGED <<version, result, PACKAGES, original, line, lineIn, renamed>>

\* Line 105: the next line; at the end of the file the with block is left and
\* src closed. A read that raises leaves the with block too: src is closed, and
\* nothing closes dst.
ReadLine ==
    /\ pc = "loop"
    /\ \/ /\ src.lines # <<>>
          /\ line' = Head(src.lines) /\ lineIn' = Head(src.lines)
          /\ src' = [src EXCEPT !.lines = Tail(src.lines)]
          /\ pc' = "subst"
       \/ /\ src.lines = <<>>
          /\ src' = [src EXCEPT !.open = FALSE]
          /\ pc' = "close_dst" /\ UNCHANGED <<line, lineIn>>
       \/ /\ src.lines # <<>>
          /\ Fail /\ src' = [src EXCEPT !.open = FALSE] /\ UNCHANGED <<line, lineIn>>
    /\ UNCHANGED <<version, result, PACKAGES, disk, original, dst, renamed>>

\* Lines 106-107
Substitute ==
    /\ pc = "subst"
    /\ line' = SubstituteItems(PACKAGES, line)
    /\ pc' = "write"
    /\ UNCHANGED <<version, result, PACKAGES, disk, original, src, dst, lineIn, renamed>>

\* Line 108: dst.write(line) into the file object's buffer
Write ==
    /\ pc = "write"
    /\ \/ /\ dst' = [dst EXCEPT !.buf = dst.buf \o WriteText(line), !.writes = dst.writes + 1]
          /\ pc' = "loop" /\ UNCHANGED src
       \/ Fail /\ src' = [src EXCEPT !.open = FALSE] /\ UNCHANGED dst
    /\ UNCHANGED <<version, result, PACKAGES, disk, original, line, lineIn, renamed>>

\* Line 110: dst.close() flushes the buffer to Dockerfile.new
CloseDst ==
    /\ pc = "close_dst"
    /\ dst' = [dst EXCEPT !.open = FALSE]
    /\ \/ disk' = [disk EXCEPT !.new.data = dst.buf] /\ pc' = "rename"
       \/ Fail /\ UNCHANGED disk
    /\ UNCHANGED <<version, result, PACKAGES, original, src, line, lineIn, renamed>>

\* Line 111: os.rename(f'{fname}.new', fname)
Rename ==
    /\ pc = "rename"
    /\ \/ /\ disk' = [Dockerfile |-> disk.new.data, new |-> [exists |-> FALSE, data |-> <<>>]]
          /\ renamed' = TRUE
          /\ pc' = "done"
       \/ Fail /\ UNCHANGED <<disk, renamed>>
    /\ UNCHANGED <<version, result, PACKAGES, original, src, dst, line, lineIn>>

Next ==
    \/ LookupCurl \/ LookupSqlite \/ LookupOpenssl \/ LookupZlib \/ LookupRustup
    \/ OpenSrc \/ OpenDst \/ ReadLine \/ Substitute \/ Write \/ CloseDst \/ Rename

Spec == Init /\ [][Next]_vars

----------------------------------------------------------------------------
(* The loop body of lines 106-107 on one line *)

InitSubst ==
    /\ pc = "subst" /\ version = <<>> /\ result = NoValue
    /\ PACKAGES \in PackageDicts
    /\ line \in Lines /\ lineIn = line
    /\ disk = NoDisk /\ original = <<>> /\ src = Closed /\ dst = Closed /\ renamed = FALSE

SpecSubst == InitSubst /\ [][Substitute]_vars

----------------------------------------------------------------------------
(* convert_openssl_version: claims *)

EndsWithDotLetter(s) == Len(s) >= 2 /\ s[Len(s) - 1] = "." /\ s[Len(s)] \in Lower

\* A dot followed by a lowercase letter and preceded, on its line, by a character
HasDotLetterAfterChar(s) ==
    \E i \in 2..(Len(s) - 1) : s[i] = "." /\ s[i + 1] \in Lower /\ s[i - 1] # "\n"

\* MAJOR.MINOR.PATCH.letter
IsOpensslStyle(s) ==
    LET dots == {i \in 1..Len(s) : s[i] = "."}
    IN /\ Cardinality(dots) = 3
       /\ EndsWithDotLetter(s)
       /\ s[1] \in Digit
       /\ \A i \in 1..(Len(s) - 1) : s[i] \in Digit \cup {"."}
       /\ \A i \in dots : i + 1 \notin dots

\* C3 as stated: every input that does not end in a dot followed by one lowercase
\* letter is returned unchanged.
C3_NoTrailingSuffixUnchanged ==
    (pc = "return" /\ ~EndsWithDotLetter(version)) => result = Ok(version)

\* C3 amended: every input in which no dot followed by a lowercase letter has a
\* character before it on its line is returned unchanged; the suffix need not be
\* at the end of the input to be rewritten.
C3_NoDotLetterUnchanged ==
    (pc = "return" /\ ~HasDotLetterAfterChar(version)) => result = Ok(version)

C3_Witness ==
    /\ pc = "return" /\ version = <<"1", ".", "1", ".", "1">>
    /\ ~HasDotLetterAfterChar(version) /\ result = Ok(version)

\* C4: for MAJOR.MINOR.PATCH.letter the result is the input without the final
\* dot, and nothing else is changed.
C4_FinalDotRemoved ==
    (pc = "return" /\ IsOpensslStyle(version)) =>
        result = Ok(SubSeq(version, 1, Len(version) - 2) \o <<version[Len(version)]>>)

C4_Witness ==
    /\ pc = "return" /\ version = <<"1", ".", "1", ".", "1", ".", "o">>
    /\ IsOpensslStyle(version)
    /\ result = Ok(<<"1", ".", "1", ".", "1", "o">>)

----------------------------------------------------------------------------
(* convert_sqlite_version: claims *)

AllDigits(s, a, b) == a <= b /\ \A i \in a..b : s[i] \in Digit

\* <<a, b, c>>: the input starts with digits 1..a, a dot, digits a+2..b, a dot,
\* and the longest run of digits b+2..c
ThreeGroups(s) ==
    {t \in (1..Len(s)) \X (1..Len(s)) \X (1..Len(s)) :
        /\ AllDigits(s, 1, t[1]) /\ t[1] + 1 <= Len(s) /\ s[t[1] + 1] = "."
        /\ AllDigits(s, t[1] + 2, t[2]) /\ t[2] + 1 <= Len(s) /\ s[t[2] + 1] = "."
        /\ AllDigits(s, t[2] + 2, t[3])
        /\ (t[3] = Len(s) \/ s[t[3] + 1] \notin Digit)}

\* The decimal numeral of a digit string read as an integer: leading zeros gone
RECURSIVE Numeral(_)
Numeral(ds) == IF Len(ds) > 1 /\ Head(ds) = "0" THEN Numeral(Tail(ds)) ELSE ds

PadTo2(ds) == IF Len(ds) < 2 THEN <<"0">> \o ds ELSE ds

\* C5: MAJOR unpadded, MINOR and PATCH zero-padded to two digits, then 00.
C5_SqliteFormat ==
    (pc = "return" /\ ThreeGroups(version) # {}) =>
        \A t \in ThreeGroups(version) :
            result = Ok(Numeral(SubSeq(version, 1, t[1]))
                        \o PadTo2(Numeral(SubSeq(version, t[1] + 2, t[2])))
                        \o PadTo2(Numeral(SubSeq(version, t[2] + 2, t[3])))
                        \o <<"0", "0">>)

C5_Witness ==
    /\ pc = "return" /\ version = <<"3", ".", "3", "0", ".", "0", "a">>
    /\ ThreeGroups(version) # {}
    /\ result = Ok(<<"3", "3", "0", "0", "0", "0", "0">>)

\* C6: an input that does not start with three dot-separated integer groups
\* ends in an error and no string is returned.
C6_MalformedRaises ==
    (pc = "return" /\ ThreeGroups(version) = {}) =>
        (result.kind \notin {"ok", "none"} /\ result.value = <<>>)

C6_Witness ==
    /\ pc = "return" /\ version = <<"3", ".", "3", "0">>
    /\ ThreeGroups(version) = {} /\ result = Raised("TypeError")

----------------------------------------------------------------------------
(* The substitution of one line: claims *)

Prefixes == {CURL, SQLITE, SSL, ZLIB, RUSTUP}

Contains(s, t) == \E p \in 1..(Len(s) - Len(t) + 1) : SubSeq(s, p, p + Len(t) - 1) = t

NoWhitespace(s) == \A i \in 1..Len(s) : s[i] \notin Whitespace

ValuesHaveNoWhitespace(items) == \A i \in 1..Len(items) : NoWhitespace(items[i][2])

ValuesHaveNoAssignment(items) ==
    \A i \in 1..Len(items) : \A q \in Prefixes : ~Contains(items[i][2], q \o VER_EQ)

\* What the claim says one prefix's substitution produces: <PREFIX>_VER= kept,
\* the old token replaced by the quoted value
RECURSIVE ClaimedReSub(_, _, _, _)
ClaimedReSub(prefix, v, s, p) ==
    IF p > Len(s) THEN <<>>
    ELSE IF MatchesAt(s, p, prefix)
         THEN TemplateKeepingGroup(prefix \o VER_EQ, v)
              \o ClaimedReSub(prefix, v, s, TokenEnd(s, p + Len(prefix) + Len(VER_EQ)) + 1)
         ELSE <<s[p]>> \o ClaimedReSub(prefix, v, s, p + 1)

RECURSIVE ClaimedItems(_, _)
ClaimedItems(items, l) ==
    IF items = <<>> THEN l
    ELSE ClaimedItems(Tail(items), ClaimedReSub(Head(items)[1], Head(items)[2], l, 1))

\* C1: each <PREFIX>_VER=<token> becomes <PREFIX>_VER="<value>", the rest of the
\* line and its terminator kept.
C1_AssignmentRewritten ==
    pc = "write" => line = ClaimedItems(PACKAGES, lineIn)

Orders == {[i \in 1..5 |-> PACKAGES[f[i]]] : f \in Permutations(1..5)}

\* C9 as stated: the items of the map applied in any order give the same line.
C9_AnyOrderSameLine ==
    pc = "write" => \A items \in Orders : SubstituteItems(items, lineIn) = line

\* C9 amended: for the program's five prefixes and values that hold no whitespace
\* and no <PREFIX>_VER= text, the items applied in any order give the same line.
C9_AnyOrderSameLinePlainValues ==
    (pc = "write" /\ ValuesHaveNoWhitespace(PACKAGES) /\ ValuesHaveNoAssignment(PACKAGES))
        => \A items \in Orders : SubstituteItems(items, lineIn) = line

C9_Witness ==
    /\ pc = "write"
    /\ ValuesHaveNoWhitespace(PACKAGES) /\ ValuesHaveNoAssignment(PACKAGES)
    /\ lineIn = CURL \o VER_EQ \o <<"1", " ">> \o SSL \o VER_EQ \o <<"1">>
    /\ line = <<SOH, QUOTE, "9", QUOTE, " ", SOH, QUOTE, "1", ".", "0", ".", "2", "o", QUOTE>>

\* C10: with values that hold no whitespace, a second pass over the output of
\* the first changes nothing.
C10_SecondPassChangesNothing ==
    (pc = "write" /\ ValuesHaveNoWhitespace(PACKAGES))
        => SubstituteItems(PACKAGES, line) = line

----------------------------------------------------------------------------
(* The main block: claims *)

PackagesComplete ==
    /\ Len(PACKAGES) = 5
    /\ <<PACKAGES[1][1], PACKAGES[2][1], PACKAGES[3][1], PACKAGES[4][1], PACKAGES[5][1]>>
          = <<CURL, SQLITE, SSL, ZLIB, RUSTUP>>

\* C2: Dockerfile keeps its original content until the rename; the rename comes
\* only after the five lookups and both conversions succeeded, every line was
\* written to Dockerfile.new and that file was closed; no line is substituted
\* with a partly built dict.
C2_AllOrNothing ==
    /\ ~renamed => disk.Dockerfile = original
    /\ renamed => /\ pc = "done"
                  /\ PackagesComplete
                  /\ src.lines = <<>>
                  /\ dst.writes = Len(ReadLines(original))
                  /\ ~dst.open
                  /\ disk.Dockerfile = dst.buf
    /\ pc \in {"subst", "write"} => PackagesComplete

C2_Witness ==
    /\ pc = "failed" /\ PackagesComplete /\ dst.writes > 0
    /\ disk.new.exists /\ original # <<>> /\ disk.Dockerfile = original

\* C7: when the run has ended, by success or by an exception, neither file
\* object is still open.
C7_HandlesReleased ==
    pc \in {"done", "failed"} => (~src.open /\ ~dst.open)

\* The lines of a file as its bytes give them: each ends with its own
\* terminator ("\n", "\r\n" or "\r"), the last one possibly with none
RECURSIVE RawLinesFrom(_, _, _)
RawLinesFrom(s, p, cur) ==
    IF p > Len(s) THEN (IF cur = <<>> THEN <<>> ELSE <<cur>>)
    ELSE IF s[p] = "\n" THEN <<Append(cur, "\n")>> \o RawLinesFrom(s, p + 1, <<>>)
    ELSE IF s[p] = "\r" /\ p < Len(s) /\ s[p + 1] = "\n"
         THEN <<cur \o <<"\r", "\n">>>> \o RawLinesFrom(s, p + 2, <<>>)
    ELSE IF s[p] = "\r" THEN <<Append(cur, "\r")>> \o RawLinesFrom(s, p + 1, <<>>)
    ELSE RawLinesFrom(s, p + 1, Append(cur, s[p]))

RawLines(s) == RawLinesFrom(s, 1, <<>>)

\* The positions of l inside a match of <PREFIX>_VER=<token> for a prefix of the dict
Covered(l) ==
    {i \in 1..Len(l) :
        \E k \in 1..Len(PACKAGES) : \E p \in 1..i :
            /\ MatchesAt(l, p, PACKAGES[k][1])
            /\ i <= SetMin({j \in (p + Len(PACKAGES[k][1]) + Len(VER_EQ))..(Len(l) + 1) :
                               j = Len(l) + 1 \/ l[j] \in Whitespace}) - 1}

\* Where the runs of uncovered positions of l start; the run after the last
\* match is there even if empty (it starts at Len(l) + 1)
GapStarts(l, cov) ==
    {i \in 1..(Len(l) + 1) : i \notin cov /\ (i = 1 \/ i - 1 \in cov)}

GapEnd(l, a, cov) ==
    SetMin({j \in a..(Len(l) + 1) : j = Len(l) + 1 \/ j \in cov}) - 1

\* o is l with each covered run replaced by some text: o starts with the first
\* gap, ends with the last, and holds the gaps between, in order
RECURSIVE FitsFrom(_, _, _, _, _)
FitsFrom(o, from, l, gapStarts, cov) ==
    IF gapStarts = {} THEN TRUE
    ELSE LET a == SetMin(gapStarts)
             g == SubSeq(l, a, GapEnd(l, a, cov))
             rest == gapStarts \ {a}
         IN \E q \in from..(Len(o) + 1) :
               /\ q + Len(g) - 1 <= Len(o)
               /\ SubSeq(o, q, q + Len(g) - 1) = g
               /\ (a = 1 => q = 1)
               /\ (rest = {} => q + Len(g) - 1 = Len(o))
               /\ FitsFrom(o, q + Len(g), l, rest, cov)

OnlyCoveredChanged(l, o) ==
    LET cov == Covered(l)
    IN IF cov = {} THEN o = l
       ELSE FitsFrom(o, 1, l, GapStarts(l, cov), cov)

FrameKept(before, after) ==
    /\ Len(RawLines(after)) = Len(RawLines(before))
    /\ \A i \in 1..Len(RawLines(before)) :
          OnlyCoveredChanged(RawLines(before)[i], RawLines(after)[i])

\* C8 as stated: the rewritten file has as many lines as the original, a line
\* with no match is byte-identical (terminator included), and in a line with a
\* match every character outside the matched spans is unchanged.
C8_OnlyAssignmentsChange ==
    pc = "done" => FrameKept(original, disk.Dockerfile)

NoLineBreak(s) == \A i \in 1..Len(s) : s[i] \notin {"\n", "\r"}

\* C8 amended: the same, where os.linesep is "\n", for a file whose line
\* terminators are all "\n" (no carriage return in it) and a dict whose values
\* hold no line terminator.
C8_OnlyAssignmentsChangeLF ==
    (/\ pc = "done"
     /\ \A i \in 1..Len(original) : original[i] # "\r"
     /\ \A k \in 1..Len(PACKAGES) : NoLineBreak(PACKAGES[k][2]))
        => FrameKept(original, disk.Dockerfile)

C8_Witness ==
    /\ pc = "done"
    /\ \A k \in 1..Len(PACKAGES) : NoLineBreak(PACKAGES[k][2])
    /\ original = <<"F", "\n">> \o CURL \o VER_EQ \o <<"1", "\n">>
    /\ disk.Dockerfile = <<"F", "\n", SOH, QUOTE, "9", QUOTE, "\n">>

====
